---- MODULE Spec2Model ----
(***************************************************************************)
(* A model of hotel_scrape_app (src/app.py): the date range generator,     *)
(* the room extractor, the fetch orchestrator and the aggregation done by  *)
(* the "Process Data" handler.                                              *)
(***************************************************************************)
EXTENDS Integers, Sequences, FiniteSets, TLC

VARIABLES
    \* generate_date_ranges
    dpc,            \* "idle" | "loop" | "done"
    start_date,     \* argument start_date, a date [year, month, day]
    delta,          \* argument delta
    end_date,       \* local end_date
    current_date,   \* local current_date
    date_ranges,    \* local date_ranges: sequence of <<check-in string, check-out string>>
    \* the "Process Data" handler, after main_async returned
    apc,            \* "fetched" | "displayed" | "warned"
    combined_df,    \* the table main_async returned
    result_df,      \* the table shown: a sequence of rows
    column_order,   \* the columns of the table shown
    \* get_hotel_details_async on one response
    ppc,            \* "fetching" | "done"
    response,       \* what the site answers to the request
    details,        \* what get_hotel_details_async gives: a table, or an exception
    \* gather_hotel_data
    gpc,                \* "running" | "returned" | "raised"
    task_state,         \* per task: "created" | "waiting" | "in_flight" | "finished" | "cancelled"
    task_response,      \* per task: what the site answers to its request
    task_result,        \* per task: what the finished coroutine gave
    get_calls,          \* per task: the number of session.get calls made
    done_queue,         \* finished tasks as_completed has not handed out yet
    results,            \* local results
    completed_requests, \* local completed_requests
    progress_calls,     \* the calls of progress_callback so far, in order
    returned_df         \* the table gather_hotel_data returned

dvars == <<dpc, start_date, delta, end_date, current_date, date_ranges>>
avars == <<apc, combined_df, result_df, column_order>>
pvars == <<ppc, response, details>>
gvars == <<gpc, task_state, task_response, task_result, get_calls, done_queue,
           results, completed_requests, progress_calls, returned_df>>
vars == <<dpc, start_date, delta, end_date, current_date, date_ranges,
          apc, combined_df, result_df, column_order, ppc, response, details,
          gpc, task_state, task_response, task_result, get_calls, done_queue,
          results, completed_requests, progress_calls, returned_df>>

\* A local not yet assigned, a coroutine not yet finished.
Unset == "unset"
Pending == [pending |-> TRUE]

\* A value that may be missing (Python's None, pandas' NaN): {} or {v}.
None == {}
Some(v) == {v}
Val(c) == CHOOSE v \in c : TRUE

(***************************************************************************)
(* datetime.date and timedelta, as far as generate_date_ranges uses them.  *)
(***************************************************************************)
IsLeap(y) == (y % 4 = 0 /\ y % 100 # 0) \/ y % 400 = 0

DaysInMonth(y, m) ==
    IF m = 2 THEN (IF IsLeap(y) THEN 29 ELSE 28)
    ELSE IF m \in {4, 6, 9, 11} THEN 30 ELSE 31

DaysBeforeYear(y) ==
    (y - 1) * 365 + ((y - 1) \div 4) - ((y - 1) \div 100) + ((y - 1) \div 400)

\* Days before the first of each month in a common year.
CumDays == <<0, 31, 59, 90, 120, 151, 181, 212, 243, 273, 304, 334>>

DaysBeforeMonth(y, m) == CumDays[m] + (IF m > 2 /\ IsLeap(y) THEN 1 ELSE 0)

Date(y, m, d) == [year |-> y, month |-> m, day |-> d]

ToOrdinal(dt) == DaysBeforeYear(dt.year) + DaysBeforeMonth(dt.year, dt.month) + dt.day

\* The years start_date is drawn from, the longest horizon tried, and the years
\* the dates computed from them can fall in.
StartYears == {2023, 2024}
MaxDelta == 31
CalendarYears == 2022..2026

YearOfOrdinal(n) ==
    CHOOSE y \in CalendarYears : DaysBeforeYear(y) < n /\ n <= DaysBeforeYear(y + 1)

MonthOfOrdinal(y, r) ==
    CHOOSE m \in 1..12 : DaysBeforeMonth(y, m) < r /\ r <= DaysBeforeMonth(y, m) + DaysInMonth(y, m)

DateOfOrdinal(n) ==
    LET y == YearOfOrdinal(n)
        m == MonthOfOrdinal(y, n - DaysBeforeYear(y))
    IN Date(y, m, n - DaysBeforeYear(y) - DaysBeforeMonth(y, m))

\* date.fromordinal, tabulated over the calendar years.
OrdinalTable ==
    [n \in (DaysBeforeYear(2022) + 1)..DaysBeforeYear(2027) |-> DateOfOrdinal(n)]

FromOrdinal(n) == OrdinalTable[n]

\* date + timedelta(days=k), date - timedelta(days=k)
AddDays(dt, k) == FromOrdinal(ToOrdinal(dt) + k)

\* date.replace(day=d)
ReplaceDay(dt, d) == Date(dt.year, dt.month, d)

\* date < date
DateLess(a, b) == ToOrdinal(a) < ToOrdinal(b)

\* strftime("%Y-%m-%d"): ten characters, zero padded.
Strftime(dt) ==
    << dt.year \div 1000, (dt.year \div 100) % 10, (dt.year \div 10) % 10, dt.year % 10,
       "-", dt.month \div 10, dt.month % 10, "-", dt.day \div 10, dt.day % 10 >>

Max(a, b) == IF a >= b THEN a ELSE b

(***************************************************************************)
(* generate_date_ranges(start_date, delta)                                 *)
(***************************************************************************)
\* Start dates tried: the first, a middle and the last day of months of 31, 28,
\* 29 and 30 days, and of December (the horizon then runs into the next year).
StartMonths == {1, 2, 4, 12}
StartDays(y, m) == {1, 15, DaysInMonth(y, m)}

StartDates == {dt \in [year : StartYears, month : StartMonths, day : 1..31] :
                  dt.day \in StartDays(dt.year, dt.month)}

\* Horizons tried: none, negative, a few days, half a month, about a month.
Deltas == ((0 - 1)..2) \cup {14, 17} \cup ((MaxDelta - 3)..MaxDelta)

DateIdle ==
    /\ dpc = "idle"
    /\ start_date = Unset
    /\ delta = 0
    /\ end_date = Unset
    /\ current_date = Unset
    /\ date_ranges = << >>

AggIdle ==
    /\ apc = "idle"
    /\ combined_df = << >>
    /\ result_df = << >>
    /\ column_order = << >>

ParseIdle ==
    /\ ppc = "idle"
    /\ response = [kind |-> "none"]
    /\ details = Pending

GatherIdle ==
    /\ gpc = "idle"
    /\ task_state = << >>
    /\ task_response = << >>
    /\ task_result = << >>
    /\ get_calls = << >>
    /\ done_queue = << >>
    /\ results = << >>
    /\ completed_requests = 0
    /\ progress_calls = << >>
    /\ returned_df = << >>

DateInit ==
    /\ dpc = "idle"
    /\ start_date \in StartDates
    /\ delta \in Deltas
    /\ end_date = Unset
    /\ current_date = Unset
    /\ date_ranges = << >>
    /\ AggIdle
    /\ ParseIdle
    /\ GatherIdle

\* lines 250-255: the locals before the loop
GenStart ==
    /\ dpc = "idle"
    /\ end_date' = AddDays(start_date, delta)
    /\ date_ranges' = << >>
    /\ current_date' = start_date
    /\ dpc' = "loop"
    /\ UNCHANGED <<start_date, delta>>
    /\ UNCHANGED <<avars, pvars, gvars>>

month_end_of(cur) ==
    LET month_start == ReplaceDay(cur, 1)
        next_month == AddDays(ReplaceDay(month_start, 28), 4)
    IN AddDays(next_month, 0 - next_month.day)

\* random.randint(1, max(1, month_end.day - 7)): both ends included
StartDayChoices_minus6(month_end) == 1..Max(1, month_end.day - 6)
StartDayChoices(month_end) == 1..Max(1, month_end.day - 7)

StayNights == 7

\* line 265: range_end = range_start + timedelta(days=7)
range_end_plus8(range_start) == AddDays(range_start, StayNights + 1)
range_end_of(range_start) == AddDays(range_start, StayNights)

\* line 257: while current_date < end_date
loop_condition_le == ~DateLess(end_date, current_date)
loop_condition == DateLess(current_date, end_date)

\* lines 257-271: one iteration of the while loop
GenIterate ==
    /\ dpc = "loop"
    /\ loop_condition
    /\ LET month_start == ReplaceDay(current_date, 1)
           month_end == month_end_of(current_date)
       IN /\ \E start_day \in StartDayChoices(month_end) :
                LET range_start == ReplaceDay(month_start, start_day)
                    range_end == range_end_of(range_start)
                IN date_ranges' = Append(date_ranges,
                                         <<Strftime(range_start), Strftime(range_end)>>)
          /\ current_date' = AddDays(month_end, 1)
    /\ UNCHANGED <<dpc, start_date, delta, end_date>>
    /\ UNCHANGED <<avars, pvars, gvars>>

\* line 257 false, line 273
GenReturn ==
    /\ dpc = "loop"
    /\ ~loop_condition
    /\ dpc' = "done"
    /\ UNCHANGED <<start_date, delta, end_date, current_date, date_ranges>>
    /\ UNCHANGED <<avars, pvars, gvars>>

DateNext == GenStart \/ GenIterate \/ GenReturn

DateSpec == DateInit /\ [][DateNext]_vars

(***************************************************************************)
(* Properties of generate_date_ranges                                      *)
(***************************************************************************)
\* Reading a "%Y-%m-%d" string back.
Strptime(s) == Date(s[1] * 1000 + s[2] * 100 + s[3] * 10 + s[4],
                    s[6] * 10 + s[7], s[9] * 10 + s[10])

CheckIn(i) == Strptime(date_ranges[i][1])
CheckOut(i) == Strptime(date_ranges[i][2])
SameMonth(a, b) == a.year = b.year /\ a.month = b.month

\* The calendar months holding at least one day of [start_date, start_date + delta).
MonthsTouched ==
    {<<FromOrdinal(n).year, FromOrdinal(n).month>> :
        n \in ToOrdinal(start_date)..(ToOrdinal(start_date) + delta - 1)}
MonthKey(ym) == ym[1] * 12 + ym[2]
\* The i-th month of a set of months in chronological order.
NthMonth(months, i) ==
    CHOOSE ym \in months :
        Cardinality({o \in months : MonthKey(o) < MonthKey(ym)}) = i - 1

\* C6: each range appended by an iteration has check-out = check-in + 7 days,
\* and its check-in and its check-out both lie in the calendar month the
\* iteration generated it from (the month of current_date).
C6_SevenNightsInsideMonth ==
    [][date_ranges' # date_ranges =>
        LET i == Len(date_ranges')
            ci == Strptime(date_ranges'[i][1])
            co == Strptime(date_ranges'[i][2])
        IN /\ Len(date_ranges') = Len(date_ranges) + 1
           /\ ToOrdinal(co) = ToOrdinal(ci) + 7
           /\ SameMonth(ci, current_date)
           /\ SameMonth(co, current_date)]_vars

\* A 28-day month gave a range ending on its last day, and a 29-, 30- and 31-day
\* month were drawn from too.
C6_Witness ==
    /\ dpc = "done"
    /\ Len(date_ranges) = 3
    /\ DaysInMonth(CheckIn(1).year, CheckIn(1).month) = 31
    /\ DaysInMonth(CheckIn(2).year, CheckIn(2).month) = 28
    /\ CheckIn(2).day = 21 /\ CheckOut(2).day = 28

\* C7: with delta >= 1 the ranges emitted are one per calendar month touched by
\* [start_date, start_date + delta), in chronological order and no other; the
\* loop runs at most once per such month and then returns; with delta <= 0
\* nothing is emitted.
C7_OnePerMonthTouched ==
    LET touched == MonthsTouched
        n == Cardinality(touched)
    IN /\ dpc # "idle" =>
             /\ Len(date_ranges) <= n
             /\ \A i \in 1..Len(date_ranges) :
                    <<CheckIn(i).year, CheckIn(i).month>> = NthMonth(touched, i)
             /\ (Len(date_ranges) = n) = ~loop_condition
       /\ dpc = "done" => Len(date_ranges) = n
       /\ dpc # "done" => ENABLED DateNext
       /\ delta <= 0 => date_ranges = << >>

\* A horizon of 31 days from the last day of January 2024 touches three months.
C7_Witness ==
    /\ dpc = "done"
    /\ start_date = Date(2024, 1, 31)
    /\ delta >= 30
    /\ Len(date_ranges) = 3
    /\ CheckIn(3).month = 3

\* C10 as stated: every range lies inside [start_date, start_date + delta].
C10_InsideHorizon ==
    dpc # "idle" =>
        \A i \in 1..Len(date_ranges) :
            /\ ~DateLess(CheckIn(i), start_date)
            /\ ~DateLess(end_date, CheckOut(i))

\* C10 amended: every range lies inside the calendar months the horizon touches:
\* check-in is on or after the first day of start_date's month, check-out is on
\* or before the last day of the month of the horizon's last day.
C10_InsideMonthsTouched ==
    dpc # "idle" =>
        \A i \in 1..Len(date_ranges) :
            /\ delta >= 1
            /\ ~DateLess(CheckIn(i), ReplaceDay(start_date, 1))
            /\ ~DateLess(month_end_of(AddDays(end_date, 0 - 1)), CheckOut(i))

\* A range that starts before start_date and one that ends after the horizon.
C10_Witness ==
    /\ dpc = "done"
    /\ Len(date_ranges) = 2
    /\ DateLess(CheckIn(1), start_date)
    /\ DateLess(end_date, CheckOut(2))

(***************************************************************************)
(* The aggregation of the "Process Data" handler (lines 382-393)           *)
(***************************************************************************)
\* Python's str < str on two strings given as sequences of characters.
RECURSIVE StrLess(_, _)
StrLess(a, b) ==
    IF b = << >> THEN FALSE
    ELSE IF a = << >> THEN TRUE
    ELSE IF a[1] = b[1] THEN StrLess(Tail(a), Tail(b))
    ELSE a[1] < b[1]

\* The number a string of decimal digits denotes.
RECURSIVE NumVal(_)
NumVal(s) == IF s = << >> THEN 0 ELSE NumVal(SubSeq(s, 1, Len(s) - 1)) * 10 + s[Len(s)]

MaxRows == 3
Hotels == {"hotel-a", "hotel-b"}
RoomNames == {None, Some("Deluxe")}
\* room_price as extract_room_price returns it: a string of digits, or None.
PriceStrings == {<<9, 0>>, <<1, 2, 0>>, <<1, 5, 0>>}
RoomPrices == {Some(pr) : pr \in PriceStrings} \cup {None}
StayRanges == {<<Strftime(Date(2024, 1, 5)), Strftime(Date(2024, 1, 12))>>,
               <<Strftime(Date(2024, 2, 3)), Strftime(Date(2024, 2, 10))>>}

\* line 51
Url(hotel, ci, co) == <<"url", hotel, ci, co>>

\* lines 161-170: the record of one room row
RoomRecord(hotel, ci, co, name, price, area, unit) ==
    [hotel_name |-> Some(hotel), check_in_date |-> Some(ci), check_out_date |-> Some(co),
     room_name |-> name, room_price |-> price, room_area |-> Some(area),
     area_unit |-> Some(unit), url |-> Some(Url(hotel, ci, co))]

Columns == {"hotel_name", "check_in_date", "check_out_date", "room_name",
            "room_price", "room_area", "area_unit", "url"}

\* The rows a combined table is drawn from; a row without room name is tried
\* for one hotel, without price and with one price.
TableRows ==
    {row \in {RoomRecord(h, r[1], r[2], n, pr, 20, "sqm") :
                 h \in Hotels, r \in StayRanges, n \in RoomNames, pr \in RoomPrices} :
        row.room_name = None =>
            /\ row.hotel_name = Some("hotel-a")
            /\ row.room_price \in {None, Some(<<9, 0>>)}}

Tables == UNION {[1..n -> TableRows] : n \in 0..MaxRows}

Perms(n) == {p \in [1..n -> 1..n] : \A i, j \in 1..n : i # j => p[i] # p[j]}

Reordered(df, p) == [i \in 1..Len(df) |-> df[p[i]]]

\* line 384: dropna(subset=['room_name'])
DropNaRoomName(df) == SelectSeq(df, LAMBDA row : row.room_name # None)

\* sort_values' order on one column of strings: ascending, missing values last.
KeyBefore_na_first(a, b) ==
    (a = None /\ b # None) \/ (a # None /\ b # None /\ StrLess(Val(a), Val(b)))
KeyBefore(a, b) == a # None /\ (b = None \/ StrLess(Val(a), Val(b)))

\* line 386: sort_values('room_price'); rows with equal keys in any order
SortValuesPrice(df) ==
    {s \in {Reordered(df, p) : p \in Perms(Len(df))} :
        \A i, j \in 1..Len(df) :
            i < j => ~KeyBefore(s[j].room_price, s[i].room_price)}

GroupKey(row) == <<row.check_in_date, row.check_out_date, row.room_name>>

\* GroupBy.first(): per column, the first value of the group that is not missing.
FirstNotNull(rows, col) ==
    IF \E i \in 1..Len(rows) : rows[i][col] # None
    THEN rows[CHOOSE i \in 1..Len(rows) :
                 /\ rows[i][col] # None
                 /\ \A j \in 1..(i - 1) : rows[j][col] = None][col]
    ELSE None

\* lines 387-388: groupby([...], as_index=False).first(), as a set of rows
GroupByFirst(df) ==
    {[col \in Columns |->
        FirstNotNull(SelectSeq(df, LAMBDA row : GroupKey(row) = k), col)] :
        k \in {GroupKey(df[i]) : i \in 1..Len(df)}}

\* line 389: sort_values(['check_in_date', 'room_price'])
FinalBefore(a, b) ==
    \/ KeyBefore(a.check_in_date, b.check_in_date)
    \/ a.check_in_date = b.check_in_date /\ KeyBefore(a.room_price, b.room_price)

\* lines 389-390: the grouped rows in sorted order, index reset
SortValuesFinal(rows) ==
    {s \in [1..Cardinality(rows) -> rows] :
        /\ \A r \in rows : \E i \in 1..Cardinality(rows) : s[i] = r
        /\ \A i, j \in 1..Cardinality(rows) : i < j => ~FinalBefore(s[j], s[i])}

\* lines 392-393
ColumnOrder == <<"hotel_name", "check_in_date", "check_out_date", "room_name",
                 "room_price", "room_area", "area_unit", "url">>

AggInit ==
    /\ apc = "fetched"
    /\ combined_df \in Tables
    /\ result_df = combined_df
    /\ column_order = << >>
    /\ DateIdle
    /\ ParseIdle
    /\ GatherIdle

\* lines 382-396: a table with rows is processed and shown
ProcessData ==
    /\ apc = "fetched"
    /\ Len(result_df) > 0
    /\ \E sorted \in SortValuesPrice(DropNaRoomName(result_df)) :
           result_df' \in SortValuesFinal(GroupByFirst(sorted))
    /\ column_order' = ColumnOrder
    /\ apc' = "displayed"
    /\ UNCHANGED combined_df
    /\ UNCHANGED <<dvars, pvars, gvars>>

\* lines 406-407: no rows
NoData ==
    /\ apc = "fetched"
    /\ Len(result_df) = 0
    /\ apc' = "warned"
    /\ UNCHANGED <<combined_df, result_df, column_order>>
    /\ UNCHANGED <<dvars, pvars, gvars>>

AggNext == ProcessData \/ NoData

AggSpec == AggInit /\ [][AggNext]_vars

(***************************************************************************)
(* The page fetcher and the room extractor (lines 13-172)                  *)
(***************************************************************************)
\* Characters of a number's text are written as their distance from "0":
\* the digits 0..9, "," and ".".
Comma == 0 - 4
Dot == 0 - 2

\* str.replace(',', '')
RemoveCommas(text) == SelectSeq(text, LAMBDA c : c # Comma)

\* What a lookup in the markup can come to: nothing there, a text, or a failure
\* inside the lookup.
Absent == [kind |-> "absent"]
Failure == [kind |-> "error"]
Found(text) == [kind |-> "found", text |-> text]
AreaFound(number, unit) == [kind |-> "found", text |-> number, unit |-> unit]

NameOutcomes == {Absent, Failure, Found("Deluxe")}
\* "150.00"
PriceOutcomes == {Absent, Failure, Found(<<1, 5, 0, Dot, 0, 0>>)}
\* "1,200 sqm" and "25.5 m2"
AreaOutcomes == {Absent, Failure, AreaFound(<<1, Comma, 2, 0, 0>>, "sqm"),
                 AreaFound(<<2, 5, Dot, 5>>, "m2")}

\* A priced room row (a tr with data-block-id) by what its three lookups give.
Rows == [name : NameOutcomes, price : PriceOutcomes, area : AreaOutcomes]

MaxPageRows == 2
\* A page: whether the parser takes the markup, the display name lookup, the rows.
Pages == [markup : {"parsed", "rejected"},
          display_name : {Absent, Failure, Found("Hotel A")},
          rows : UNION {[1..n -> Rows] : n \in 0..MaxPageRows}]

\* lines 95-126: extract_room_price; a failure is caught and gives None
extract_room_price(row) ==
    IF row.price.kind = "found" THEN Some(RemoveCommas(row.price.text)) ELSE None

\* line 86: float(area_value) if '.' in area_value else int(area_value)
AreaNumber(area_value) ==
    IF \E i \in 1..Len(area_value) : area_value[i] = Dot
    THEN <<"float", area_value>>
    ELSE NumVal(area_value)

\* lines 60-93: extract_room_area; a failure is caught and gives None
extract_room_area(row) ==
    IF row.area.kind = "found"
    THEN Some(<<AreaNumber(RemoveCommas(row.area.text)), row.area.unit>>)
    ELSE None

\* line 158: if area_info
emits_if_area_and_price(room_price, area_info) == area_info # None /\ room_price # None
emits(room_price, area_info) == area_info # None

\* lines 152-153: the room name lookup, not guarded
room_name_of(row) == IF row.name.kind = "found" THEN Some(row.name.text) ELSE None

\* An exception leaving a coroutine, and a table it returns.
Raised == [raised |-> TRUE]
Table(data) == [raised |-> FALSE, data |-> data]

\* lines 150-170: the rows of the page in turn, from row i on
RECURSIVE parse_rows(_, _, _, _, _)
parse_rows(rows, i, hotel_display_name, check_in_date, check_out_date) ==
    IF i > Len(rows) THEN << >>
    ELSE LET row == rows[i]
             room_price == extract_room_price(row)
             area_info == extract_room_area(row)
             rest == parse_rows(rows, i + 1, hotel_display_name, check_in_date, check_out_date)
         IN IF emits(room_price, area_info)
            THEN <<[hotel_name |-> Some(hotel_display_name),
                    check_in_date |-> Some(check_in_date),
                    check_out_date |-> Some(check_out_date),
                    room_name |-> room_name_of(row),
                    room_price |-> room_price,
                    room_area |-> Some(Val(area_info)[1]),
                    area_unit |-> Some(Val(area_info)[2]),
                    url |-> Some(Url(hotel_display_name, check_in_date, check_out_date))]>>
                 \o rest
            ELSE rest

\* lines 128-172: parse_hotel_page. The parser (141), the display name lookup
\* (145-146) and the room name lookup (152-153) are outside any try.
parse_hotel_page(html, hotel_name, check_in_date, check_out_date) ==
    IF \/ html.markup = "rejected"
       \/ html.display_name.kind = "error"
       \/ \E i \in 1..Len(html.rows) : html.rows[i].name.kind = "error"
    THEN Raised
    ELSE Table(parse_rows(html.rows, 1,
                          IF html.display_name.kind = "found"
                          THEN html.display_name.text ELSE hotel_name,
                          check_in_date, check_out_date))

\* The empty string as a page.
EmptyHtml == [markup |-> "empty", display_name |-> Absent, rows |-> << >>]

\* What the site does with one request.
Responses ==
    {[kind |-> "timeout"], [kind |-> "network_error"], [kind |-> "status", code |-> 500],
     [kind |-> "status", code |-> 200, body |-> EmptyHtml]}
    \cup {[kind |-> "status", code |-> 200, body |-> page] : page \in Pages}

\* lines 13-33: fetch_hotel_page; every failure is caught and gives ""
fetch_hotel_page(resp) ==
    IF resp.kind = "status" /\ resp.code >= 200 /\ resp.code < 300
    THEN resp.body ELSE EmptyHtml

\* lines 35-58: get_hotel_details_async
get_hotel_details_async(resp, hotel_url_name, check_in_date, check_out_date) ==
    LET html == fetch_hotel_page(resp)
    IN IF html = EmptyHtml THEN Table(<< >>)
       ELSE parse_hotel_page(html, hotel_url_name, check_in_date, check_out_date)

ParseInit ==
    /\ ppc = "fetching"
    /\ response \in Responses
    /\ details = Pending
    /\ DateIdle
    /\ AggIdle
    /\ GatherIdle

GetHotelDetails ==
    /\ ppc = "fetching"
    /\ details' = get_hotel_details_async(response, "hotel-a",
                      Strftime(Date(2024, 1, 5)), Strftime(Date(2024, 1, 12)))
    /\ ppc' = "done"
    /\ UNCHANGED response
    /\ UNCHANGED <<dvars, avars, gvars>>

ParseNext == GetHotelDetails

ParseSpec == ParseInit /\ [][ParseNext]_vars

(***************************************************************************)
(* The fetch orchestrator: gather_hotel_data (lines 174-219)               *)
(***************************************************************************)
NumHotels == 3
NumDateRanges == 1
\* the limit of the connector (line 190); the default of the parameter is 10
max_concurrent == 2

hotel_list == SubSeq(<<"hotel-a", "hotel-b", "hotel-c", "hotel-d">>, 1, NumHotels)
range_list ==
    SubSeq(<< <<Strftime(Date(2024, 1, 5)), Strftime(Date(2024, 1, 12))>>,
              <<Strftime(Date(2024, 2, 3)), Strftime(Date(2024, 2, 10))>>,
              <<Strftime(Date(2024, 3, 9)), Strftime(Date(2024, 3, 16))>>,
              <<Strftime(Date(2024, 4, 2)), Strftime(Date(2024, 4, 9))>> >>, 1, NumDateRanges)

\* line 195
total_requests == Len(hotel_list) * Len(range_list)

\* lines 198-201: the tasks, hotel by hotel and range by range
tasks ==
    [k \in 1..total_requests |->
        [hotel_name |-> hotel_list[((k - 1) \div Len(range_list)) + 1],
         date_range |-> range_list[((k - 1) % Len(range_list)) + 1]]]

TaskIds == 1..total_requests

FullRow == [name |-> Found("Deluxe"), price |-> Found(<<1, 5, 0, Dot, 0, 0>>),
            area |-> AreaFound(<<1, Comma, 2, 0, 0>>, "sqm")]
GoodPage == [markup |-> "parsed", display_name |-> Absent, rows |-> <<FullRow>>]
\* A page whose second row fails in the room name lookup.
BadRowPage == [markup |-> "parsed", display_name |-> Absent,
               rows |-> <<FullRow, [FullRow EXCEPT !.name = Failure]>>]

\* The answers of the site tried in a batch.
BatchResponses ==
    {[kind |-> "timeout"], [kind |-> "status", code |-> 500],
     [kind |-> "status", code |-> 200, body |-> GoodPage],
     [kind |-> "status", code |-> 200, body |-> BadRowPage]}

\* What the coroutine of task t gives when the site's answer arrives.
details_of(t, resp) ==
    get_hotel_details_async(resp, tasks[t].hotel_name,
                            tasks[t].date_range[1], tasks[t].date_range[2])

InFlight == {t \in TaskIds : task_state[t] = "in_flight"}

\* lines 190-203: connector, session, the tasks and the empty results
GatherInit ==
    /\ gpc = "running"
    /\ task_state = [t \in TaskIds |-> "created"]
    /\ task_response \in [TaskIds -> BatchResponses]
    /\ task_result = [t \in TaskIds |-> Pending]
    /\ get_calls = [t \in TaskIds |-> 0]
    /\ done_queue = << >>
    /\ results = << >>
    /\ completed_requests = 0
    /\ progress_calls = << >>
    /\ returned_df = << >>
    /\ DateIdle
    /\ AggIdle
    /\ ParseIdle

\* gather_hotel_data touches nothing else.
RestUnchanged == UNCHANGED <<dvars, avars, pvars>>

\* line 190: the connector hands out a connection while fewer than limit are out
slot_free == Cardinality(InFlight) < max_concurrent

\* lines 53, 28: the task starts and calls session.get; the request is sent if the
\* connector has a free connection, else the task waits for one
TaskStart(t) ==
    /\ gpc = "running"
    /\ task_state[t] = "created"
    /\ get_calls' = [get_calls EXCEPT ![t] = @ + 1]
    /\ task_state' = [task_state EXCEPT ![t] = IF slot_free THEN "in_flight" ELSE "waiting"]
    /\ UNCHANGED <<gpc, task_response, task_result, done_queue, results,
                   completed_requests, progress_calls, returned_df>>
    /\ RestUnchanged

\* line 28: a waiting task gets a connection that was released
AcquireSlot(t) ==
    /\ gpc = "running"
    /\ task_state[t] = "waiting"
    /\ slot_free
    /\ task_state' = [task_state EXCEPT ![t] = "in_flight"]
    /\ UNCHANGED <<gpc, task_response, task_result, get_calls, done_queue, results,
                   completed_requests, progress_calls, returned_df>>
    /\ RestUnchanged

\* lines 191, 28-33, 54-55: the 30 s of ClientTimeout(total=30) run from the
\* session.get call, so they can end while the task still waits for a
\* connection; the task then ends with an empty table
QueueTimeout(t) ==
    /\ gpc = "running"
    /\ task_state[t] = "waiting"
    /\ task_state' = [task_state EXCEPT ![t] = "finished"]
    /\ task_result' = [task_result EXCEPT ![t] = Table(<< >>)]
    /\ done_queue' = Append(done_queue, t)
    /\ UNCHANGED <<gpc, task_response, get_calls, results,
                   completed_requests, progress_calls, returned_df>>
    /\ RestUnchanged

\* lines 28-33, 53-58: the answer (or the timeout) arrives, the connection is
\* released and the coroutine runs to its end
Respond(t) ==
    /\ gpc = "running"
    /\ task_state[t] = "in_flight"
    /\ task_state' = [task_state EXCEPT ![t] = "finished"]
    /\ task_result' = [task_result EXCEPT ![t] = details_of(t, task_response[t])]
    /\ done_queue' = Append(done_queue, t)
    /\ UNCHANGED <<gpc, task_response, get_calls, results,
                   completed_requests, progress_calls, returned_df>>
    /\ RestUnchanged

\* lines 204-209: one round of the as_completed loop. Awaiting a task that ended
\* with an exception raises it here: it leaves gather_hotel_data, the session
\* is closed and asyncio.run cancels the tasks still running.
Collect ==
    /\ gpc = "running"
    /\ done_queue # << >>
    /\ LET result == task_result[Head(done_queue)]
       IN IF result.raised
          THEN /\ gpc' = "raised"
               /\ task_state' = [t \in TaskIds |->
                                    IF task_state[t] = "finished"
                                    THEN "finished" ELSE "cancelled"]
               /\ UNCHANGED <<results, completed_requests, progress_calls>>
          ELSE /\ results' = Append(results, result)
               /\ completed_requests' = completed_requests + 1
               /\ progress_calls' =
                      Append(progress_calls, <<completed_requests + 1, total_requests>>)
               /\ UNCHANGED <<gpc, task_state>>
    /\ done_queue' = Tail(done_queue)
    /\ UNCHANGED <<task_response, task_result, get_calls, returned_df>>
    /\ RestUnchanged

\* lines 212-219: the tables with rows, one after the other
RECURSIVE concat_valid(_)
concat_valid(rs) ==
    IF rs = << >> THEN << >> ELSE Head(rs).data \o concat_valid(Tail(rs))

\* lines 204, 211-219: every task has been awaited
Return ==
    /\ gpc = "running"
    /\ Len(results) = total_requests
    /\ returned_df' = concat_valid(results)
    /\ gpc' = "returned"
    /\ UNCHANGED <<task_state, task_response, task_result, get_calls, done_queue,
                   results, completed_requests, progress_calls>>
    /\ RestUnchanged

GatherNext ==
    \/ \E t \in TaskIds : TaskStart(t)
    \/ \E t \in TaskIds : AcquireSlot(t)
    \/ \E t \in TaskIds : QueueTimeout(t)
    \/ \E t \in TaskIds : Respond(t)
    \/ Collect
    \/ Return

Spec == GatherInit /\ [][GatherNext]_vars

\* The event loop runs every task that can run; a request ends within its
\* 30 s, by an answer or by the timeout; a task waiting for a connection gets
\* one or times out.
FairSpec ==
    /\ Spec
    /\ \A t \in TaskIds :
          /\ WF_vars(TaskStart(t))
          /\ WF_vars(Respond(t))
          /\ WF_vars(AcquireSlot(t) \/ QueueTimeout(t))
    /\ WF_vars(Collect)
    /\ WF_vars(Return)

(***************************************************************************)
(* Properties of the aggregation                                           *)
(***************************************************************************)
NamedRows(df) == {i \in 1..Len(df) : df[i].room_name # None}

\* The prices present in the group of combined_df with key k.
GroupPrices(k) ==
    {Val(combined_df[j].room_price) :
        j \in {i \in NamedRows(combined_df) :
                  GroupKey(combined_df[i]) = k /\ combined_df[i].room_price # None}}

\* C1: of every group of combined rows sharing (check-in, check-out, room name)
\* that holds a row with a price, the row retained carries the numerically
\* smallest price of the group.
C1_MinPriceRetained ==
    apc = "displayed" =>
        \A j \in NamedRows(combined_df) :
            LET k == GroupKey(combined_df[j])
            IN GroupPrices(k) # {} =>
                 \E i \in 1..Len(result_df) :
                     /\ GroupKey(result_df[i]) = k
                     /\ result_df[i].room_price # None
                     /\ \A pr \in GroupPrices(k) :
                            NumVal(Val(result_df[i].room_price)) <= NumVal(pr)

\* C9: the table shown is a selection of whole rows of the combined table, one
\* for each group of rows with a room name: no row is put together from
\* different rows, no two rows share a group, every group is there (also one
\* without any price), and no row lacks its room name.
C9_WholeRowPerGroup ==
    apc = "displayed" =>
        /\ \A i \in 1..Len(result_df) :
               /\ result_df[i].room_name # None
               /\ \E j \in NamedRows(combined_df) : result_df[i] = combined_df[j]
        /\ \A i, j \in 1..Len(result_df) :
               i # j => GroupKey(result_df[i]) # GroupKey(result_df[j])
        /\ \A j \in NamedRows(combined_df) :
               \E i \in 1..Len(result_df) :
                   GroupKey(result_df[i]) = GroupKey(combined_df[j])
        /\ column_order = ColumnOrder

\* A table with a group holding a row without price and a priced row of another
\* hotel, and a row without room name, has been processed.
C9_Witness ==
    /\ apc = "displayed"
    /\ Len(combined_df) = 3
    /\ \E a, b, c \in 1..3 :
          /\ combined_df[a].room_name # None
          /\ combined_df[a].room_price = None
          /\ combined_df[b].room_price # None
          /\ GroupKey(combined_df[a]) = GroupKey(combined_df[b])
          /\ combined_df[a].hotel_name # combined_df[b].hotel_name
          /\ combined_df[c].room_name = None
    /\ Len(result_df) = 1

(***************************************************************************)
(* Properties of the room extractor                                        *)
(***************************************************************************)
\* C8: when parse_hotel_page returns, its records are, in page order, exactly
\* the rows whose area lookup found a match: a row without a match gives no
\* record whatever its room name and price, a row with one gives a record
\* with its area and with its room name and price as found, absent or not.
C8_RecordIffAreaMatch ==
    (ppc = "done" /\ fetch_hotel_page(response) # EmptyHtml /\ ~details.raised) =>
        LET rows == response.body.rows
            matched == {i \in 1..Len(rows) : rows[i].area.kind = "found"}
            rank(i) == Cardinality({j \in matched : j <= i})
        IN /\ Len(details.data) = Cardinality(matched)
           /\ \A i \in matched :
                  LET rec == details.data[rank(i)]
                  IN /\ rec.area_unit = Some(rows[i].area.unit)
                     /\ rec.room_area =
                            Some(AreaNumber(RemoveCommas(rows[i].area.text)))
                     /\ (rec.room_name = None) = (rows[i].name.kind # "found")
                     /\ (rec.room_price = None) = (rows[i].price.kind # "found")

\* A page with a row that has an area but neither room name nor price, and a
\* row with room name and price but no area, gave one record, the first row's.
C8_Witness ==
    /\ ppc = "done"
    /\ fetch_hotel_page(response) # EmptyHtml
    /\ ~details.raised
    /\ Len(response.body.rows) = 2
    /\ response.body.rows[1] = [name |-> Absent, price |-> Absent,
                                area |-> AreaFound(<<1, Comma, 2, 0, 0>>, "sqm")]
    /\ response.body.rows[2].area = Absent
    /\ response.body.rows[2].name.kind = "found"
    /\ response.body.rows[2].price.kind = "found"
    /\ Len(details.data) = 1
    /\ details.data[1].room_area = Some(1200)
    /\ details.data[1].room_name = None

(***************************************************************************)
(* Properties of the fetch orchestrator                                    *)
(***************************************************************************)
Finished == {t \in TaskIds : task_state[t] = "finished"}
Queued == {done_queue[i] : i \in 1..Len(done_queue)}
FetchFails(t) ==
    task_response[t].kind # "status" \/ task_response[t].code < 200
        \/ task_response[t].code >= 300

\* C2: the callback is called once after each task that finishes, with
\* (1, N), (2, N), ... in that order, the count always the number of results
\* gathered; when the run of gather_hotel_data is over it has been called N
\* times.
C2_ProgressOncePerTask ==
    /\ progress_calls = [i \in 1..Len(progress_calls) |-> <<i, total_requests>>]
    /\ Len(progress_calls) = completed_requests
    /\ completed_requests = Len(results)
    /\ Len(progress_calls) = Cardinality(Finished \ Queued)
    /\ gpc # "running" => Len(progress_calls) = total_requests

\* C3: when the request of some target fails, that target gives no record and
\* is asked for once, every target ends with the result its own answer gives,
\* and the batch returns with every task counted.
C3_FailedFetchIsolated ==
    (\E t \in TaskIds : FetchFails(t)) =>
        /\ [](\A t \in Finished :
                 /\ get_calls[t] = 1
                 /\ FetchFails(t) => task_result[t] = Table(<< >>)
                 /\ task_result[t] = details_of(t, task_response[t]))
        /\ <>(gpc = "returned" /\ completed_requests = total_requests)

\* C4: never more than max_concurrent requests are in flight, a waiting task
\* goes on only when a connection is free, and every waiting task gets one.
C4_BoundedInFlight ==
    /\ [](Cardinality(InFlight) <= max_concurrent)
    /\ [][\A t \in TaskIds :
            (task_state[t] = "waiting" /\ task_state'[t] = "in_flight") =>
                Cardinality(InFlight) < max_concurrent]_vars
    /\ \A t \in TaskIds :
          (task_state[t] = "waiting") ~> (task_state[t] = "in_flight")

\* C5: no failure in a task ends the batch: no task ends with an exception,
\* gather_hotel_data does not raise, and the table it returns holds the rows of
\* every task.
C5_NoFailureAbortsBatch ==
    /\ gpc # "raised"
    /\ \A t \in Finished : ~task_result[t].raised
    /\ gpc = "returned" =>
          \A t \in TaskIds : \A i \in 1..Len(task_result[t].data) :
              \E j \in 1..Len(returned_df) : returned_df[j] = task_result[t].data[i]

====
